---- MODULE Spec2Model ----
(***************************************************************************)
(* Judging pipeline of the coding platform: POST /api/submissions,         *)
(* processSubmission (server/routes/submissions.js) and the CodeExecutor   *)
(* service (execute, prepareFiles, compile, runTestCase,                   *)
(* prepareExecutionCommand, normalizeOutput; second half of                *)
(* server/index.js).                                                       *)
(*                                                                         *)
(* Texts that the code compares character by character (program output,    *)
(* expected output) are sequences of one-character strings.  Texts that    *)
(* the code only tests for emptiness and with String.includes (stderr,     *)
(* error messages) are sequences of phrases: includes(m) is membership of  *)
(* the phrase m, concatenation is \o.                                      *)
(***************************************************************************)
EXTENDS Integers, Sequences, FiniteSets, TLC

VARIABLES
    platform,   \* process.platform of the server
    problem,    \* the Problem document handed to processSubmission
    store,      \* the submission collection: id -> persisted document
    history,    \* per submission id, the statuses persisted so far, in order
    tasks,      \* the processSubmission invocations and their positions
    fs,         \* the paths that exist under CodeExecutor.tempDir
    unit,       \* one runTestCase call in isolation: its inputs and its result
    response,   \* the last response of GET /api/submissions/:id
    counters,   \* the persisted statistics of the problem and of the user
    posts       \* the POST /api/submissions handlers that run step by step

vars == <<platform, problem, store, history, tasks, fs, unit, response, counters, posts>>

-----------------------------------------------------------------------------
(* Bounds of the model *)

MaxLen == 2        \* longest program output / expected output, in characters
MaxCases == 2      \* longest test case list of a problem
MaxTasks == 2      \* processSubmission invocations in the concurrent specification
MaxAttempts == 1   \* the attempt limit of the problems that have one

-----------------------------------------------------------------------------
(* Character texts *)

Chars == {"a", " ", "\n"}

Whitespace == {" ", "\n"}

RECURSIVE TextsUpTo(_)
TextsUpTo(n) ==
    IF n = 0 THEN {<<>>}
    ELSE LET shorter == TextsUpTo(n - 1)
         IN  shorter \cup {Append(s, c) : s \in {x \in shorter : Len(x) = n - 1}, c \in Chars}

Texts == TextsUpTo(MaxLen)

\* String.prototype.split('\n'): the pieces between separators, at least one piece
RECURSIVE SplitFrom(_, _, _)
SplitFrom(s, sep, cur) ==
    IF s = <<>> THEN <<cur>>
    ELSE IF Head(s) = sep THEN <<cur>> \o SplitFrom(Tail(s), sep, <<>>)
    ELSE SplitFrom(Tail(s), sep, Append(cur, Head(s)))

Split(s, sep) == SplitFrom(s, sep, <<>>)

RECURSIVE TrimStart(_)
TrimStart(s) ==
    IF s # <<>> /\ Head(s) \in Whitespace THEN TrimStart(Tail(s)) ELSE s

RECURSIVE TrimEnd(_)
TrimEnd(s) ==
    IF s # <<>> /\ s[Len(s)] \in Whitespace THEN TrimEnd(SubSeq(s, 1, Len(s) - 1)) ELSE s

\* String.prototype.trim: whitespace removed at both ends
Trim(s) == TrimEnd(TrimStart(s))

\* Array.prototype.join('\n')
RECURSIVE Join(_, _)
Join(lines, sep) ==
    IF lines = <<>> THEN <<>>
    ELSE IF Len(lines) = 1 THEN lines[1]
    ELSE lines[1] \o <<sep>> \o Join(Tail(lines), sep)

MapTrim(lines) == [k \in DOMAIN lines |-> Trim(lines[k])]

\* a filter that keeps every line
AllLines(lines) == lines

NonEmptyLines(lines) == SelectSeq(lines, LAMBDA l : Len(l) > 0)

\* the lines filtered before they are trimmed, and no trim of the whole
normalizeOutputFilterFirst(output) ==
    Join(MapTrim(NonEmptyLines(Split(output, "\n"))), "\n")

normalizeOutput(output) ==
    Trim(Join(NonEmptyLines(MapTrim(Split(output, "\n"))), "\n"))

-----------------------------------------------------------------------------
(* Phrase texts: stderr and error messages *)

TLE == "Time limit exceeded"
MLE == "Memory limit exceeded"
RTE == "Runtime error"

NoText == <<>>

Includes(text, phrase) == \E k \in DOMAIN text : text[k] = phrase

\* a || b on strings: the empty string is falsy
OrElse(a, b) == IF a # NoText THEN a ELSE b

-----------------------------------------------------------------------------
(* What a spawned process does.  A run behaviour is what the submitted      *)
(* program does on one input: it exits with a code after writing out to its *)
(* standard output and err to its standard error, or it never exits; shell  *)
(* is what the wrapping shell itself prints on its standard error (job      *)
(* status such as "Aborted", a failed ulimit).                              *)

Completed(out, err) == [kind |-> "exit", code |-> 0, out |-> out, err |-> err, shell |-> NoText]

Crashed(code, shell) == [kind |-> "exit", code |-> code, out |-> <<>>, err |-> NoText, shell |-> shell]

Hangs == [kind |-> "hang", code |-> 0, out |-> <<>>, err |-> NoText, shell |-> NoText]

\* The command line built for one test case: on win32 the bare redirection,
\* elsewhere the same under `timeout Ns bash -c "ulimit -v ..; .."` (N the limit in seconds).
\* Both redirect the program's stdout and stderr to files.
prepareExecutionCommand(plat) ==
    IF plat = "win32"
    THEN [timeoutWrap |-> FALSE, redirected |-> TRUE]
    ELSE [timeoutWrap |-> TRUE, redirected |-> TRUE]

\* execAsync(command, {timeout: timeLimit + 1000}): resolves with the shell's
\* stdout and stderr when the command exits 0, rejects with an error carrying
\* code, signal and stderr otherwise.  A program that never exits is ended by
\* timeout(1) at the limit (the command then exits 124, no signal) when the
\* command is wrapped, and by exec's own timer (the shell is killed with
\* SIGTERM) when it is not.
ExecRun(command, beh) ==
    IF beh.kind = "hang"
    THEN IF command.timeoutWrap
         THEN [resolved |-> FALSE, code |-> 124, signal |-> "none",
               stdout |-> <<>>, stderr |-> NoText, outFile |-> <<>>, errFile |-> NoText]
         ELSE [resolved |-> FALSE, code |-> 0, signal |-> "SIGTERM",
               stdout |-> <<>>, stderr |-> NoText, outFile |-> <<>>, errFile |-> NoText]
    ELSE [resolved |-> beh.code = 0, code |-> beh.code, signal |-> "none",
          stdout |-> IF command.redirected THEN <<>> ELSE beh.out,
          stderr |-> beh.shell,
          outFile |-> IF command.redirected THEN beh.out ELSE <<>>,
          errFile |-> IF command.redirected THEN beh.err ELSE NoText]

\* the catch block of runTestCase: the message chosen for a rejected exec
RunErrorMessage(ex) ==
    IF ex.signal \in {"SIGTERM", "SIGKILL"} THEN <<TLE>>
    ELSE IF ex.code = 134 THEN <<MLE>>
    ELSE IF ex.stderr # NoText THEN <<RTE>> \o ex.stderr
    ELSE <<RTE>>

\* runTestCase: the result of one test case.  The expected output of the test
\* case is no parameter of runTestCase; the output file is compared with the
\* stdout that exec captured.
runTestCase(plat, input, beh) ==
    LET ex == ExecRun(prepareExecutionCommand(plat), beh)
        normalizedOutput == normalizeOutput(ex.outFile)
        normalizedExpectedOutput == normalizeOutput(ex.stdout)
    IN  IF ex.resolved
        THEN [passed |-> normalizedOutput = normalizedExpectedOutput,
              memory |-> 0,
              output |-> normalizedOutput,
              error |-> OrElse(ex.errFile, ex.stderr)]
        ELSE [passed |-> FALSE,
              memory |-> 0,
              output |-> <<>>,
              error |-> RunErrorMessage(ex)]

-----------------------------------------------------------------------------
(* One runTestCase call in isolation *)

NoResult == [passed |-> FALSE, memory |-> 0, output |-> <<>>, error |-> <<"none">>]

UnitIdle == [called |-> FALSE, input |-> <<>>, expected |-> <<>>, beh |-> Hangs, result |-> NoResult]

\* input and output of a test case are required strings: never empty
CaseTexts == Texts \ {<<>>}

UnitBehaviours ==
    {Completed(out, NoText) : out \in Texts}
        \cup {Hangs, Crashed(1, NoText), Crashed(1, <<"x">>), Crashed(134, NoText)}

Platforms == {"win32", "linux"}

-----------------------------------------------------------------------------
(* Documents *)

Languages == {"cpp", "python", "java", "javascript"}

TerminalStatuses ==
    {"accepted", "wrong-answer", "partial-correct", "time-limit-exceeded",
     "memory-limit-exceeded", "runtime-error", "compilation-error"}

\* declared point values of a test case
CasePoints == {0, 5}

TestCase(points) ==
    [input |-> <<"a">>, output |-> <<"a">>, points |-> points, isHidden |-> FALSE]

\* a test case with isHidden: true
HiddenTestCase(points) == [TestCase(points) EXCEPT !.isHidden = TRUE]

RECURSIVE CaseListsOfLen(_)
CaseListsOfLen(n) ==
    IF n = 0 THEN {<<>>}
    ELSE {Append(l, TestCase(p)) : l \in CaseListsOfLen(n - 1), p \in CasePoints}

CaseLists(max) == UNION {CaseListsOfLen(n) : n \in 0..max}

\* the defaults of problemSchema: seconds and megabytes
SchemaTimeLimit == 1

SchemaMemoryLimit == 256

\* maxAttempts of problemSchema: 0 means unlimited
Unlimited == 0

Problems(max) ==
    {[testCases |-> l, allowedLanguages |-> Languages,
      timeLimit |-> SchemaTimeLimit, memoryLimit |-> SchemaMemoryLimit,
      maxAttempts |-> Unlimited] : l \in CaseLists(max)}

\* problem.submissions and user.statistics as the schemas default them
NoCounters ==
    [problem |-> [total |-> 0, successful |-> 0, partial |-> 0],
     user |-> [problemsSolved |-> 0, totalSubmissions |-> 0, successfulSubmissions |-> 0]]

NoPosts == <<>>

\* the defaults of submissionSchema
DefaultResult ==
    [score |-> 0, maxScore |-> 0, memoryUsed |-> 0, testCasesPassed |-> 0,
     totalTestCases |-> 0, testCaseResults |-> <<>>]

DefaultCompilationInfo == [success |-> FALSE, error |-> NoText]

NoDoc ==
    [status |-> "none", language |-> "none", result |-> DefaultResult,
     compilationInfo |-> DefaultCompilationInfo, attemptNumber |-> 0]

NewSubmission(language) ==
    [status |-> "pending", language |-> language, result |-> DefaultResult,
     compilationInfo |-> DefaultCompilationInfo, attemptNumber |-> 1]

\* submissionSchema.methods.getDetails: the fields of the document, result
\* and compilationInfo whole
getDetails(doc) ==
    [status |-> doc.status, language |-> doc.language, result |-> doc.result,
     compilationInfo |-> doc.compilationInfo, attemptNumber |-> doc.attemptNumber]

NoResponse == [code |-> 0, requester |-> "none", data |-> NoDoc]

\* who sends GET /api/submissions/:id: the user of the submission, an admin,
\* or another user
Requesters == {"submitter", "admin", "other"}

\* the ids of the submissions stored, and of the processSubmission invocations
SubIds == DOMAIN store

TaskIds == DOMAIN tasks

\* the invocations there may be
TaskSlots == 1..MaxTasks

-----------------------------------------------------------------------------
(* CodeExecutor: the pure parts *)

\* this.timeLimit and this.memoryLimit of the constructor: ms and bytes
DefaultTimeLimit == 5000

DefaultMemoryLimit == 256 * 1024 * 1024

\* a limit that is null: in the products of processSubmission it counts as 0
NoLimit == 0

\* limit || this.limit on numbers: 0 and NaN are falsy
OrDefault(limit, default) == IF limit # 0 THEN limit ELSE default

UnsupportedLanguage == <<"Unsupported language">>

\* prepareFiles whose switch falls back to cpp for any other tag
prepareFilesDefaultCpp(language) ==
    CASE language = "python" ->
            [supported |-> TRUE, sourceFile |-> "solution.py", executableFile |-> "solution.py",
             compileCommand |-> "none", runCommand |-> "python3"]
      [] language = "java" ->
            [supported |-> TRUE, sourceFile |-> "Solution.java", executableFile |-> "Solution",
             compileCommand |-> "javac", runCommand |-> "java"]
      [] language = "javascript" ->
            [supported |-> TRUE, sourceFile |-> "solution.js", executableFile |-> "solution.js",
             compileCommand |-> "none", runCommand |-> "node"]
      [] OTHER ->
            [supported |-> TRUE, sourceFile |-> "solution.cpp", executableFile |-> "solution",
             compileCommand |-> "g++", runCommand |-> "solution"]

\* prepareFiles: the file names and commands of a language
prepareFiles(language) ==
    CASE language = "cpp" ->
            [supported |-> TRUE, sourceFile |-> "solution.cpp", executableFile |-> "solution",
             compileCommand |-> "g++", runCommand |-> "solution"]
      [] language = "python" ->
            [supported |-> TRUE, sourceFile |-> "solution.py", executableFile |-> "solution.py",
             compileCommand |-> "none", runCommand |-> "python3"]
      [] language = "java" ->
            [supported |-> TRUE, sourceFile |-> "Solution.java", executableFile |-> "Solution",
             compileCommand |-> "javac", runCommand |-> "java"]
      [] language = "javascript" ->
            [supported |-> TRUE, sourceFile |-> "solution.js", executableFile |-> "solution.js",
             compileCommand |-> "none", runCommand |-> "node"]
      [] OTHER ->
            [supported |-> FALSE, sourceFile |-> "none", executableFile |-> "none",
             compileCommand |-> "none", runCommand |-> "none"]

\* What the build process does: it exits with a code, or it is still running
\* when exec's 10 s timeout kills it; stderr is what it has written.
Build(kind, code, stderr) == [kind |-> kind, code |-> code, stderr |-> stderr]

NoBuild == Build("none", 0, NoText)

BuildFailed(b) == b.kind = "hang" \/ (b.kind = "exit" /\ b.code # 0)

CommandFailed == <<"Command failed">>

\* compile that looks at stderr alone, whether or not exec rejected
compileStderrOnly(b) ==
    IF b.stderr # NoText
    THEN [success |-> FALSE, error |-> b.stderr]
    ELSE [success |-> TRUE, error |-> NoText]

\* compile: success only if exec resolved with an empty stderr
compile(b) ==
    IF b.kind = "exit" /\ b.code = 0
    THEN IF b.stderr # NoText
         THEN [success |-> FALSE, error |-> b.stderr]
         ELSE [success |-> TRUE, error |-> NoText]
    ELSE [success |-> FALSE, error |-> OrElse(b.stderr, CommandFailed)]

\* testCase.points || 10
PointsOf(tc) == IF tc.points # 0 THEN tc.points ELSE 10

\* the points of the case whether or not it passed
CaseScoreAlways(tc, result) == PointsOf(tc)

CaseScore(tc, result) == IF result.passed THEN PointsOf(tc) ELSE 0

\* the entry pushed on results for test case tc
ResultEntry(tc, result) ==
    [passed |-> result.passed, memoryUsed |-> result.memory, input |-> tc.input,
     expectedOutput |-> tc.output, actualOutput |-> result.output,
     error |-> result.error, score |-> CaseScore(tc, result)]

\* the score classification with the full-score test made first
ScoreStatusFullScoreFirst(totalScore, maxScore) ==
    IF totalScore = maxScore THEN "accepted"
    ELSE IF totalScore = 0 THEN "wrong-answer"
    ELSE "partial-correct"

ScoreStatus(totalScore, maxScore) ==
    IF totalScore = 0 THEN "wrong-answer"
    ELSE IF totalScore < maxScore THEN "partial-correct"
    ELSE "accepted"

ErrorStatus(error) ==
    IF Includes(error, TLE) THEN "time-limit-exceeded"
    ELSE IF Includes(error, MLE) THEN "memory-limit-exceeded"
    ELSE IF Includes(error, RTE) THEN "runtime-error"
    ELSE "none"

\* the loop over results: the first result whose error names a failure decides
RECURSIVE FirstErrorStatus(_)
FirstErrorStatus(results) ==
    IF results = <<>> THEN "none"
    ELSE IF Head(results).error # NoText /\ ErrorStatus(Head(results).error) # "none"
         THEN ErrorStatus(Head(results).error)
         ELSE FirstErrorStatus(Tail(results))

\* the overall status with the loop over results run only for a score of 0
OverallStatusScoreFirst(results, totalScore, maxScore) ==
    IF totalScore > 0 \/ FirstErrorStatus(results) = "none"
    THEN ScoreStatus(totalScore, maxScore)
    ELSE FirstErrorStatus(results)

OverallStatus(results, totalScore, maxScore) ==
    IF FirstErrorStatus(results) # "none"
    THEN FirstErrorStatus(results)
    ELSE ScoreStatus(totalScore, maxScore)

CountPassed(results) == Len(SelectSeq(results, LAMBDA r : r.passed))

\* the values execute returns
NoReturn ==
    [set |-> FALSE, success |-> FALSE, status |-> "none", error |-> NoText,
     score |-> 0, maxScore |-> 0, memoryUsed |-> 0, testCasesPassed |-> 0,
     totalTestCases |-> 0, testCaseResults |-> <<>>]

ReturnVerdict(testCases, results, totalScore, maxScore, maxMemory) ==
    [set |-> TRUE, success |-> TRUE,
     status |-> OverallStatus(results, totalScore, maxScore), error |-> NoText,
     score |-> totalScore, maxScore |-> maxScore, memoryUsed |-> maxMemory,
     testCasesPassed |-> CountPassed(results), totalTestCases |-> Len(testCases),
     testCaseResults |-> results]

ReturnFailure(status, error) ==
    [NoReturn EXCEPT !.set = TRUE, !.status = status, !.error = error]

Max(a, b) == IF a >= b THEN a ELSE b

\* The loop of execute over a whole list, as a function of the list and of
\* what the program does on each case: the results pushed, totalScore,
\* maxScore, and the verdict returned after the loop.
LoopResults(plat, testCases, behs) ==
    [k \in DOMAIN testCases |->
        ResultEntry(testCases[k], runTestCase(plat, testCases[k].input, behs[k]))]

RECURSIVE SumScores(_)
SumScores(results) ==
    IF results = <<>> THEN 0 ELSE Head(results).score + SumScores(Tail(results))

RECURSIVE SumPoints(_)
SumPoints(testCases) ==
    IF testCases = <<>> THEN 0 ELSE PointsOf(Head(testCases)) + SumPoints(Tail(testCases))

LoopVerdict(plat, testCases, behs) ==
    LET results == LoopResults(plat, testCases, behs)
    IN  ReturnVerdict(testCases, results, SumScores(results), SumPoints(testCases), 0)

-----------------------------------------------------------------------------
(* The work area: a path is <<execution id, kind, index>>; the working      *)
(* directory of an execution is its "dir" path, the others are files in it. *)

WorkDir(t) == <<t, "dir", 0>>

SourceFile(t) == <<t, "source", 0>>

ExecutableFile(t) == <<t, "executable", 0>>

CaseFiles(t, k) == {<<t, "input", k>>, <<t, "output", k>>, <<t, "error", k>>}

\* fs.remove of a working directory: the directory and everything in it
RemoveTree(files, t) == {p \in files : p[1] # t}

-----------------------------------------------------------------------------
(* processSubmission invocations *)

\* a call processSubmission(sid, problem, code, language) at its first
\* statement; the problem object it is handed carries the counters that the
\* caller's Problem.findById read
NewTask(sid, language) ==
    [pc |-> "find", sid |-> sid, language |-> language, doc |-> NoDoc, loaded |-> "none",
     build |-> NoBuild, i |-> 0, behs |-> <<>>, results |-> <<>>,
     totalScore |-> 0, maxScore |-> 0, maxMemory |-> 0, ret |-> NoReturn,
     error |-> NoText, spawned |-> <<>>, execTimeLimit |-> 0, execMemoryLimit |-> 0,
     problemDoc |-> counters.problem, userDoc |-> NoCounters.user, latest |-> 0,
     newlySolved |-> FALSE]

DbError == <<"database error">>

FsError == <<"ENOSPC">>

\* submission.save(): the modified paths of the document are written; status
\* is modified when it differs from the value the document was loaded with
Saved(t, doc, paths) ==
    LET sid == tasks[t].sid
        written == IF doc.status # tasks[t].loaded THEN paths \cup {"status"} ELSE paths
    IN  /\ store' = [store EXCEPT ![sid] =
                        [f \in DOMAIN doc |-> IF f \in written THEN doc[f] ELSE store[sid][f]]]
        /\ history' = [history EXCEPT ![sid] =
                          IF "status" \in written THEN Append(@, doc.status) ELSE @]

\* an exception caught by the catch block of processSubmission
Thrown(t, doc, message) ==
    tasks' = [tasks EXCEPT ![t].pc = "catchFind", ![t].doc = doc, ![t].error = message]

\* POST /api/submissions as one step: the attempts are counted, the
\* submission is saved as pending with its attempt number and
\* processSubmission is started, not awaited
Submit(language) ==
    /\ language \in problem.allowedLanguages
    /\ problem.maxAttempts > 0 => Len(store) < problem.maxAttempts
    /\ store' = Append(store, [NewSubmission(language) EXCEPT !.attemptNumber = Len(store) + 1])
    /\ history' = Append(history, <<"pending">>)
    /\ tasks' = Append(tasks, NewTask(Len(store) + 1, language))
    /\ UNCHANGED <<platform, problem, fs, unit, response, counters, posts>>

\* const submission = await Submission.findById(submissionId)
Find(t, ok) ==
    /\ t \in TaskIds
    /\ tasks[t].pc = "find"
    /\ IF ok
       THEN IF tasks[t].sid \notin DOMAIN store
            THEN tasks' = [tasks EXCEPT ![t].pc = "done"]
            ELSE tasks' = [tasks EXCEPT ![t].pc = "saveCompiling",
                                        ![t].doc = store[tasks[t].sid],
                                        ![t].loaded = store[tasks[t].sid].status]
       ELSE Thrown(t, tasks[t].doc, DbError)
    /\ UNCHANGED <<platform, problem, store, history, fs, unit, response, counters, posts>>

\* submission.status = 'compiling'; await submission.save()
SaveCompiling(t, ok) ==
    LET doc == [tasks[t].doc EXCEPT !.status = "compiling"]
    IN  /\ t \in TaskIds
        /\ tasks[t].pc = "saveCompiling"
        /\ IF ok
           THEN /\ Saved(t, doc, {})
                /\ tasks' = [tasks EXCEPT ![t].pc = "ensureDir", ![t].doc = doc,
                                          ![t].loaded = doc.status]
           ELSE /\ Thrown(t, doc, DbError)
                /\ UNCHANGED <<store, history>>
        /\ UNCHANGED <<platform, problem, fs, unit, response, counters, posts>>

\* execute, called with problem.timeLimit * 1000 and problem.memoryLimit *
\* 1024 * 1024: await fs.ensureDir(workDir), a failure is caught by execute;
\* then the limits of this execution
EnsureWorkDir(t, ok) ==
    /\ t \in TaskIds
    /\ tasks[t].pc = "ensureDir"
    /\ IF ok
       THEN /\ fs' = fs \cup {WorkDir(t)}
            /\ tasks' = [tasks EXCEPT ![t].pc = "prepareFiles",
                   ![t].execTimeLimit = OrDefault(problem.timeLimit * 1000, DefaultTimeLimit),
                   ![t].execMemoryLimit =
                       OrDefault(problem.memoryLimit * 1024 * 1024, DefaultMemoryLimit)]
       ELSE /\ fs' = fs
            /\ tasks' = [tasks EXCEPT ![t].pc = "cleanup",
                                      ![t].ret = ReturnFailure("runtime-error", FsError)]
    /\ UNCHANGED <<platform, problem, store, history, unit, response, counters, posts>>

\* execute: await this.prepareFiles(workDir, code, language)
PrepareFilesStep(t, ok) ==
    LET files == prepareFiles(tasks[t].language)
    IN  /\ t \in TaskIds
        /\ tasks[t].pc = "prepareFiles"
        /\ IF ~files.supported
           THEN /\ fs' = fs
                /\ tasks' = [tasks EXCEPT ![t].pc = "cleanup",
                       ![t].ret = ReturnFailure("runtime-error", UnsupportedLanguage)]
           ELSE IF ~ok
           THEN /\ fs' = fs
                /\ tasks' = [tasks EXCEPT ![t].pc = "cleanup",
                                          ![t].ret = ReturnFailure("runtime-error", FsError)]
           ELSE /\ fs' = fs \cup {SourceFile(t)}
                /\ tasks' = [tasks EXCEPT
                       ![t].pc = IF files.compileCommand # "none" THEN "compile" ELSE "run"]
        /\ UNCHANGED <<platform, problem, store, history, unit, response, counters, posts>>

\* execute: if (compileCommand) { compileResult = await this.compile(..) .. }
CompileStep(t, b) ==
    LET compileResult == compile(b)
    IN  /\ t \in TaskIds
        /\ tasks[t].pc = "compile"
        /\ IF compileResult.success
           THEN /\ fs' = fs \cup {ExecutableFile(t)}
                /\ tasks' = [tasks EXCEPT ![t].pc = "run", ![t].build = b,
                                          ![t].spawned = Append(@, "compile")]
           ELSE /\ fs' = fs
                /\ tasks' = [tasks EXCEPT ![t].pc = "cleanup", ![t].build = b,
                       ![t].spawned = Append(@, "compile"),
                       ![t].ret = ReturnFailure("compilation-error", compileResult.error)]
        /\ UNCHANGED <<platform, problem, store, history, unit, response, counters, posts>>

\* the loop left at the first test case that fails
RunCaseAbortOnFailure(t, beh) ==
    LET k == tasks[t].i + 1
        testCase == problem.testCases[k]
        result == runTestCase(platform, testCase.input, beh)
    IN  /\ t \in TaskIds
        /\ tasks[t].pc = "run"
        /\ tasks[t].i < Len(problem.testCases)
        /\ fs' = (fs \cup CaseFiles(t, k)) \ CaseFiles(t, k)
        /\ tasks' = [tasks EXCEPT
               ![t].i = IF result.passed THEN k ELSE Len(problem.testCases),
               ![t].behs = Append(@, beh),
               ![t].spawned = Append(@, "run"),
               ![t].totalScore = @ + CaseScore(testCase, result),
               ![t].maxScore = @ + PointsOf(testCase),
               ![t].maxMemory = Max(@, result.memory),
               ![t].results = Append(@, ResultEntry(testCase, result))]
        /\ UNCHANGED <<platform, problem, store, history, unit, response, counters, posts>>

\* exec without its timeout option: the wait for a program that never exits
\* does not end
RunCaseAwaitsExit(t, beh) ==
    LET k == tasks[t].i + 1
        testCase == problem.testCases[k]
        result == runTestCase(platform, testCase.input, beh)
    IN  /\ t \in TaskIds
        /\ tasks[t].pc = "run"
        /\ tasks[t].i < Len(problem.testCases)
        /\ beh.kind # "hang"
        /\ fs' = (fs \cup CaseFiles(t, k)) \ CaseFiles(t, k)
        /\ tasks' = [tasks EXCEPT ![t].i = k,
               ![t].behs = Append(@, beh),
               ![t].spawned = Append(@, "run"),
               ![t].totalScore = @ + CaseScore(testCase, result),
               ![t].maxScore = @ + PointsOf(testCase),
               ![t].maxMemory = Max(@, result.memory),
               ![t].results = Append(@, ResultEntry(testCase, result))]
        /\ UNCHANGED <<platform, problem, store, history, unit, response, counters, posts>>

\* execute: one turn of the loop over testCases; runTestCase writes the input
\* file, runs the command and removes its three files in its finally block
RunCase(t, beh) ==
    LET k == tasks[t].i + 1
        testCase == problem.testCases[k]
        result == runTestCase(platform, testCase.input, beh)
    IN  /\ t \in TaskIds
        /\ tasks[t].pc = "run"
        /\ tasks[t].i < Len(problem.testCases)
        /\ fs' = (fs \cup CaseFiles(t, k)) \ CaseFiles(t, k)
        /\ tasks' = [tasks EXCEPT ![t].i = k,
               ![t].behs = Append(@, beh),
               ![t].spawned = Append(@, "run"),
               ![t].totalScore = @ + CaseScore(testCase, result),
               ![t].maxScore = @ + PointsOf(testCase),
               ![t].maxMemory = Max(@, result.memory),
               ![t].results = Append(@, ResultEntry(testCase, result))]
        /\ UNCHANGED <<platform, problem, store, history, unit, response, counters, posts>>

\* execute: the overall status and the return of the verdict
Resolve(t) ==
    /\ t \in TaskIds
    /\ tasks[t].pc = "run"
    /\ tasks[t].i = Len(problem.testCases)
    /\ tasks' = [tasks EXCEPT ![t].pc = "cleanup",
           ![t].ret = ReturnVerdict(problem.testCases, tasks[t].results, tasks[t].totalScore,
                                    tasks[t].maxScore, tasks[t].maxMemory)]
    /\ UNCHANGED <<platform, problem, store, history, fs, unit, response, counters, posts>>

\* the removal placed at the end of the try block: skipped by the early
\* return of a build failure and by the catch block
CleanupAfterVerdictOnly(t) ==
    /\ t \in TaskIds
    /\ tasks[t].pc = "cleanup"
    /\ fs' = IF tasks[t].ret.success THEN RemoveTree(fs, t) ELSE fs
    /\ tasks' = [tasks EXCEPT ![t].pc = "saveResult"]
    /\ UNCHANGED <<platform, problem, store, history, unit, response, counters, posts>>

\* execute: finally { await fs.remove(workDir) }, then the return to the caller.
\* fs.remove is taken to do what it is called for; were it to reject, the
\* error would be logged and the directory would stay.
Cleanup(t) ==
    /\ t \in TaskIds
    /\ tasks[t].pc = "cleanup"
    /\ fs' = RemoveTree(fs, t)
    /\ tasks' = [tasks EXCEPT ![t].pc = "saveResult"]
    /\ UNCHANGED <<platform, problem, store, history, unit, response, counters, posts>>

\* submission.status = result.status; result or compilationInfo; save()
SaveResult(t, ok) ==
    LET ret == tasks[t].ret
        doc == IF ret.success
               THEN [tasks[t].doc EXCEPT !.status = ret.status,
                        !.result = [score |-> ret.score, maxScore |-> ret.maxScore,
                                    memoryUsed |-> ret.memoryUsed,
                                    testCasesPassed |-> ret.testCasesPassed,
                                    totalTestCases |-> ret.totalTestCases,
                                    testCaseResults |-> ret.testCaseResults]]
               ELSE [tasks[t].doc EXCEPT !.status = ret.status,
                        !.compilationInfo = [success |-> FALSE, error |-> ret.error]]
    IN  /\ t \in TaskIds
        /\ tasks[t].pc = "saveResult"
        /\ IF ok
           THEN /\ Saved(t, doc, IF ret.success THEN {"result"} ELSE {"compilationInfo"})
                /\ tasks' = [tasks EXCEPT ![t].pc = "problemStats", ![t].doc = doc,
                                          ![t].loaded = doc.status]
           ELSE /\ Thrown(t, doc, DbError)
                /\ UNCHANGED <<store, history>>
        /\ UNCHANGED <<platform, problem, fs, unit, response, counters, posts>>

\* problemSchema.methods.updateSubmissionStats on the counters of a document
updateSubmissionStats(doc, isSuccessful, isPartial) ==
    [total |-> doc.total + 1,
     successful |-> IF isSuccessful THEN doc.successful + 1 ELSE doc.successful,
     partial |-> IF ~isSuccessful /\ isPartial THEN doc.partial + 1 ELSE doc.partial]

\* document.save(): the persisted record with the modified paths overwritten
WritePaths(persisted, doc, paths) ==
    [f \in DOMAIN persisted |-> IF f \in paths THEN doc[f] ELSE persisted[f]]

\* await problem.updateSubmissionStats(..) on the problem object that was
\* handed to processSubmission; a rejected save is caught by the catch block
\* of processSubmission
UpdateProblemStats(t, ok) ==
    LET isSuccessful == tasks[t].doc.status = "accepted"
        isPartial == tasks[t].doc.status = "partial-correct"
        doc == updateSubmissionStats(tasks[t].problemDoc, isSuccessful, isPartial)
        paths == {"total"} \cup (IF isSuccessful THEN {"successful"} ELSE {})
                           \cup (IF ~isSuccessful /\ isPartial THEN {"partial"} ELSE {})
    IN  /\ t \in TaskIds
        /\ tasks[t].pc = "problemStats"
        /\ IF ok
           THEN /\ counters' = [counters EXCEPT !.problem = WritePaths(@, doc, paths)]
                /\ tasks' = [tasks EXCEPT ![t].pc = "userStats", ![t].problemDoc = doc]
           ELSE /\ counters' = counters
                /\ Thrown(t, tasks[t].doc, DbError)
        /\ UNCHANGED <<platform, problem, store, history, fs, unit, response, posts>>

\* updateUserStats: const user = await User.findById(userId), then the
\* increments on the loaded document; updateUserStats catches its own errors
UpdateUserStats(t, ok) ==
    LET isSuccessful == tasks[t].doc.status = "accepted"
        user == [counters.user EXCEPT
                    !.totalSubmissions = @ + 1,
                    !.successfulSubmissions = IF isSuccessful THEN @ + 1 ELSE @]
    IN  /\ t \in TaskIds
        /\ tasks[t].pc = "userStats"
        /\ IF ok
           THEN tasks' = [tasks EXCEPT ![t].userDoc = user,
                             ![t].pc = IF isSuccessful THEN "userLatest" ELSE "userSave"]
           ELSE tasks' = [tasks EXCEPT ![t].pc = "done"]
        /\ UNCHANGED <<platform, problem, store, history, fs, unit, response, counters, posts>>

\* the accepted submissions of the user; submittedAt grows with the id
AcceptedIds == {s \in SubIds : store[s].status = "accepted"}

\* updateUserStats: Submission.findOne({user, status: 'accepted'}) sorted by
\* submittedAt, latest first
UserFindLatest(t, ok) ==
    /\ t \in TaskIds
    /\ tasks[t].pc = "userLatest"
    /\ IF ok
       THEN IF AcceptedIds = {}
            THEN tasks' = [tasks EXCEPT ![t].pc = "userSave"]
            ELSE tasks' = [tasks EXCEPT ![t].pc = "userExists",
                    ![t].latest = CHOOSE s \in AcceptedIds : \A o \in AcceptedIds : o <= s]
       ELSE tasks' = [tasks EXCEPT ![t].pc = "done"]
    /\ UNCHANGED <<platform, problem, store, history, fs, unit, response, counters, posts>>

\* updateUserStats: Submission.exists(another accepted submission of the
\* user for the problem of the one found); problemsSolved += 1 if there is none
UserExistsSolved(t, ok) ==
    LET alreadySolved == \E s \in AcceptedIds : s # tasks[t].latest
    IN  /\ t \in TaskIds
        /\ tasks[t].pc = "userExists"
        /\ IF ok
           THEN tasks' = [tasks EXCEPT ![t].pc = "userSave",
                   ![t].newlySolved = ~alreadySolved,
                   ![t].userDoc.problemsSolved = IF alreadySolved THEN @ ELSE @ + 1]
           ELSE tasks' = [tasks EXCEPT ![t].pc = "done"]
        /\ UNCHANGED <<platform, problem, store, history, fs, unit, response, counters, posts>>

\* updateUserStats: await user.save()
UserSave(t, ok) ==
    LET paths == {"totalSubmissions"}
                    \cup (IF tasks[t].doc.status = "accepted"
                          THEN {"successfulSubmissions"} ELSE {})
                    \cup (IF tasks[t].newlySolved THEN {"problemsSolved"} ELSE {})
    IN  /\ t \in TaskIds
        /\ tasks[t].pc = "userSave"
        /\ counters' = IF ok
                       THEN [counters EXCEPT !.user = WritePaths(@, tasks[t].userDoc, paths)]
                       ELSE counters
        /\ tasks' = [tasks EXCEPT ![t].pc = "done"]
        /\ UNCHANGED <<platform, problem, store, history, fs, unit, response, posts>>

\* catch: const submission = await Submission.findById(submissionId)
CatchFind(t, ok) ==
    /\ t \in TaskIds
    /\ tasks[t].pc = "catchFind"
    /\ IF ok /\ tasks[t].sid \in DOMAIN store
       THEN tasks' = [tasks EXCEPT ![t].pc = "catchSave", ![t].doc = store[tasks[t].sid],
                                   ![t].loaded = store[tasks[t].sid].status]
       ELSE tasks' = [tasks EXCEPT ![t].pc = "done"]
    /\ UNCHANGED <<platform, problem, store, history, fs, unit, response, counters, posts>>

\* catch: status = 'runtime-error', compilationInfo = the message; save()
CatchSave(t, ok) ==
    LET doc == [tasks[t].doc EXCEPT !.status = "runtime-error",
                   !.compilationInfo = [success |-> FALSE, error |-> tasks[t].error]]
    IN  /\ t \in TaskIds
        /\ tasks[t].pc = "catchSave"
        /\ IF ok
           THEN /\ Saved(t, doc, {"compilationInfo"})
                /\ tasks' = [tasks EXCEPT ![t].pc = "done", ![t].doc = doc,
                                          ![t].loaded = doc.status]
           ELSE /\ tasks' = [tasks EXCEPT ![t].pc = "done"]
                /\ UNCHANGED <<store, history>>
        /\ UNCHANGED <<platform, problem, fs, unit, response, counters, posts>>

\* processSubmission(submissionId, ..) called for a submission that exists
Invoke(sid) ==
    /\ sid \in DOMAIN store
    /\ tasks' = Append(tasks, NewTask(sid, store[sid].language))
    /\ UNCHANGED <<platform, problem, store, history, fs, unit, response, counters, posts>>

\* GET /api/submissions/:id: 404 for an unknown id; the document's details
\* for its user and for an admin; for another user the access test reads
\* submission.problem.author, which populate('problem', 'title difficulty')
\* has not loaded: the TypeError is caught and answered with 500
GetSubmission(sid, requester) ==
    /\ response' =
          IF sid \notin DOMAIN store
          THEN [code |-> 404, requester |-> requester, data |-> NoDoc]
          ELSE IF requester = "other"
          THEN [code |-> 500, requester |-> requester, data |-> NoDoc]
          ELSE [code |-> 200, requester |-> requester, data |-> getDetails(store[sid])]
    /\ UNCHANGED <<platform, problem, store, history, tasks, fs, unit, counters, posts>>

\* one call of runTestCase on the inputs drawn initially
UnitRunTestCase ==
    /\ ~unit.called
    /\ unit' = [unit EXCEPT !.called = TRUE,
                            !.result = runTestCase(platform, unit.input, unit.beh)]
    /\ UNCHANGED <<platform, problem, store, history, tasks, fs, response, counters, posts>>

-----------------------------------------------------------------------------
(* Specifications *)

\* what the submitted program may do on one test case
RunBehaviours ==
    {Completed(<<>>, NoText), Completed(<<"a">>, NoText), Completed(<<"a", "\n">>, <<"x">>),
     Completed(<<>>, <<TLE>>), Crashed(1, NoText), Crashed(1, <<"x">>),
     Crashed(134, NoText), Hangs}

\* what the compiler may do
BuildBehaviours ==
    {Build("exit", 0, NoText), Build("exit", 0, <<"warning">>),
     Build("exit", 1, <<"diagnostic">>), Build("hang", 0, NoText)}

NoStore == <<>>

NoHistory == <<>>

NoTasks == <<>>

Step(t, runs, builds) ==
    \/ \E ok \in BOOLEAN : Find(t, ok)
    \/ \E ok \in BOOLEAN : SaveCompiling(t, ok)
    \/ \E ok \in BOOLEAN : EnsureWorkDir(t, ok)
    \/ \E ok \in BOOLEAN : PrepareFilesStep(t, ok)
    \/ \E b \in builds : CompileStep(t, b)
    \/ \E beh \in runs : RunCase(t, beh)
    \/ Resolve(t)
    \/ Cleanup(t)
    \/ \E ok \in BOOLEAN : SaveResult(t, ok)
    \/ \E ok \in BOOLEAN : UpdateProblemStats(t, ok)
    \/ \E ok \in BOOLEAN : UpdateUserStats(t, ok)
    \/ \E ok \in BOOLEAN : UserFindLatest(t, ok)
    \/ \E ok \in BOOLEAN : UserExistsSolved(t, ok)
    \/ \E ok \in BOOLEAN : UserSave(t, ok)
    \/ \E ok \in BOOLEAN : CatchFind(t, ok)
    \/ \E ok \in BOOLEAN : CatchSave(t, ok)

\* The steps of processSubmission when no database or host call fails
StepReliable(t, runs, builds) ==
    \/ Find(t, TRUE)
    \/ SaveCompiling(t, TRUE)
    \/ EnsureWorkDir(t, TRUE)
    \/ PrepareFilesStep(t, TRUE)
    \/ \E b \in builds : CompileStep(t, b)
    \/ \E beh \in runs : RunCase(t, beh)
    \/ Resolve(t)
    \/ Cleanup(t)
    \/ SaveResult(t, TRUE)
    \/ UpdateProblemStats(t, TRUE)
    \/ UpdateUserStats(t, TRUE)
    \/ UserFindLatest(t, TRUE)
    \/ UserExistsSolved(t, TRUE)
    \/ UserSave(t, TRUE)

\* One submission: POST /api/submissions once, then its processSubmission
Init ==
    /\ platform \in Platforms
    /\ problem \in Problems(MaxCases)
    /\ store = NoStore
    /\ history = NoHistory
    /\ tasks = NoTasks
    /\ fs = {}
    /\ unit = UnitIdle
    /\ response = NoResponse
    /\ counters = NoCounters
    /\ posts = NoPosts

\* the one POST of this specification
SubmitOnce(language) == tasks = NoTasks /\ Submit(language)

Next ==
    \/ \E language \in Languages : SubmitOnce(language)
    \/ \E t \in TaskSlots : Step(t, RunBehaviours, BuildBehaviours)

Spec == Init /\ [][Next]_vars

\* The same with the scheduling of Node.js: a continuation of
\* processSubmission that can run does run
Fairness == \A t \in TaskSlots : WF_vars(Step(t, RunBehaviours, BuildBehaviours))

SpecLive == Spec /\ Fairness

\* One submission whose compiler never exits and whose program may never
\* exit on an input: progress is promised only for the continuations that
\* follow a timeout, a program that exits is possible but not promised
HangRuns == {Hangs}

HangBuilds == {Build("hang", 0, NoText)}

HangOrExitRuns == HangRuns \cup {Completed(<<>>, NoText)}

NextHang ==
    \/ \E language \in Languages : SubmitOnce(language)
    \/ \E t \in TaskSlots : Step(t, HangOrExitRuns, HangBuilds)

FairnessHang == \A t \in TaskSlots : WF_vars(Step(t, HangRuns, HangBuilds))

SpecHang == Init /\ [][NextHang]_vars /\ FairnessHang

\* One call of runTestCase
InitUnit ==
    /\ platform \in Platforms
    /\ problem \in Problems(0)
    /\ store = NoStore
    /\ history = NoHistory
    /\ tasks = NoTasks
    /\ fs = {}
    /\ unit \in {[UnitIdle EXCEPT !.input = input, !.expected = expected, !.beh = beh] :
                    input \in CaseTexts, expected \in CaseTexts, beh \in UnitBehaviours}
    /\ response = NoResponse
    /\ counters = NoCounters
    /\ posts = NoPosts

NextUnit == UnitRunTestCase

SpecUnit == InitUnit /\ [][NextUnit]_vars

\* One call of runTestCase on a program that completes: normalizeOutput is
\* applied to what the program wrote
NormTexts == TextsUpTo(MaxLen + 2)

InitNormalize ==
    /\ platform \in Platforms
    /\ problem \in Problems(0)
    /\ store = NoStore
    /\ history = NoHistory
    /\ tasks = NoTasks
    /\ fs = {}
    /\ unit \in {[UnitIdle EXCEPT !.input = <<"a">>, !.expected = expected,
                                  !.beh = Completed(out, NoText)] :
                    expected \in NormTexts, out \in NormTexts}
    /\ response = NoResponse
    /\ counters = NoCounters
    /\ posts = NoPosts

SpecNormalize == InitNormalize /\ [][NextUnit]_vars

\* Grading requests for submissions that are already stored: besides POST,
\* processSubmission is called for a submission id that exists
ConcurrentRuns == {Completed(<<>>, NoText), Hangs}

ConcurrentBuilds == {Build("exit", 0, NoText), Build("exit", 1, <<"diagnostic">>)}

ConcurrentLanguages == {"cpp"}

ConcurrentProblems ==
    {p \in Problems(MaxCases) : \A k \in DOMAIN p.testCases : p.testCases[k].points = 5}

InitRegrade ==
    /\ platform \in Platforms
    /\ problem \in ConcurrentProblems
    /\ store = NoStore
    /\ history = NoHistory
    /\ tasks = NoTasks
    /\ fs = {}
    /\ unit = UnitIdle
    /\ response = NoResponse
    /\ counters = NoCounters
    /\ posts = NoPosts

SubmitAgain(language) == Len(tasks) < MaxTasks /\ Submit(language)

InvokeAgain(sid) == Len(tasks) < MaxTasks /\ Invoke(sid)

NextRegrade ==
    \/ \E language \in ConcurrentLanguages : SubmitAgain(language)
    \/ \E sid \in TaskSlots : InvokeAgain(sid)
    \/ \E t \in TaskSlots : Step(t, ConcurrentRuns, ConcurrentBuilds)

SpecRegrade == InitRegrade /\ [][NextRegrade]_vars

\* Submissions of one user to one problem, processed concurrently, with every
\* database and host call succeeding
InitStats ==
    /\ platform \in Platforms
    /\ problem \in ConcurrentProblems
    /\ store = NoStore
    /\ history = NoHistory
    /\ tasks = NoTasks
    /\ fs = {}
    /\ unit = UnitIdle
    /\ response = NoResponse
    /\ counters = NoCounters
    /\ posts = NoPosts

NextStats ==
    \/ \E language \in ConcurrentLanguages : SubmitAgain(language)
    \/ \E t \in TaskSlots : StepReliable(t, ConcurrentRuns, ConcurrentBuilds)

SpecStats == InitStats /\ [][NextStats]_vars

\* POST /api/submissions, one await at a time

PostIds == {p \in TaskSlots : p <= Len(posts)}

AttemptProblems ==
    {[p EXCEPT !.maxAttempts = m] : p \in ConcurrentProblems, m \in {Unlimited, MaxAttempts}}

\* the request passes validation, Problem.findById and the allowedLanguages
\* check, and reaches the attempt check
PostBegin(language) ==
    /\ Len(posts) < MaxTasks
    /\ language \in problem.allowedLanguages
    /\ posts' = Append(posts,
            [pc |-> IF problem.maxAttempts > 0 THEN "countAttempts" ELSE "attemptNumber",
             language |-> language, problemDoc |-> counters.problem, attemptNumber |-> 0])
    /\ UNCHANGED <<platform, problem, store, history, tasks, fs, unit, response, counters>>

\* if (problem.maxAttempts > 0): await Submission.countDocuments(..), 400 when
\* the count has reached maxAttempts; a rejected query is answered with 500
PostCountAttempts(p, ok) ==
    /\ p \in PostIds
    /\ posts[p].pc = "countAttempts"
    /\ posts' = [posts EXCEPT ![p].pc =
            IF ~ok THEN "failed"
            ELSE IF Len(store) >= problem.maxAttempts THEN "rejected"
            ELSE "attemptNumber"]
    /\ UNCHANGED <<platform, problem, store, history, tasks, fs, unit, response, counters>>

\* const attemptNumber = await Submission.countDocuments(..) + 1
PostAttemptNumber(p, ok) ==
    /\ p \in PostIds
    /\ posts[p].pc = "attemptNumber"
    /\ posts' = IF ok
                THEN [posts EXCEPT ![p].pc = "save", ![p].attemptNumber = Len(store) + 1]
                ELSE [posts EXCEPT ![p].pc = "failed"]
    /\ UNCHANGED <<platform, problem, store, history, tasks, fs, unit, response, counters>>

\* await submission.save(), then processSubmission(..) is started, not awaited
PostSave(p, ok) ==
    /\ p \in PostIds
    /\ posts[p].pc = "save"
    /\ IF ok
       THEN /\ store' = Append(store, [NewSubmission(posts[p].language) EXCEPT
                                          !.attemptNumber = posts[p].attemptNumber])
            /\ history' = Append(history, <<"pending">>)
            /\ tasks' = Append(tasks, [NewTask(Len(store) + 1, posts[p].language) EXCEPT
                                          !.problemDoc = posts[p].problemDoc])
            /\ posts' = [posts EXCEPT ![p].pc = "created"]
       ELSE /\ posts' = [posts EXCEPT ![p].pc = "failed"]
            /\ UNCHANGED <<store, history, tasks>>
    /\ UNCHANGED <<platform, problem, fs, unit, response, counters>>

InitAttempts ==
    /\ platform \in Platforms
    /\ problem \in AttemptProblems
    /\ store = NoStore
    /\ history = NoHistory
    /\ tasks = NoTasks
    /\ fs = {}
    /\ unit = UnitIdle
    /\ response = NoResponse
    /\ counters = NoCounters
    /\ posts = NoPosts

NextAttempts ==
    \/ \E language \in ConcurrentLanguages : PostBegin(language)
    \/ \E p \in TaskSlots, ok \in BOOLEAN : PostCountAttempts(p, ok)
    \/ \E p \in TaskSlots, ok \in BOOLEAN : PostAttemptNumber(p, ok)
    \/ \E p \in TaskSlots, ok \in BOOLEAN : PostSave(p, ok)

SpecAttempts == InitAttempts /\ [][NextAttempts]_vars

\* processSubmission called directly, with arguments of the caller's choice,
\* for a submission that is stored as pending: a language tag that POST would
\* not let through, a problem object whose limits are null
CallLanguages == Languages \cup {"ruby"}

CallLimits(schemaLimit) == {NoLimit, schemaLimit}

CallProblems ==
    {[p EXCEPT !.timeLimit = tl, !.memoryLimit = ml] :
        p \in ConcurrentProblems,
        tl \in CallLimits(SchemaTimeLimit), ml \in CallLimits(SchemaMemoryLimit)}

InitCall ==
    /\ platform \in Platforms
    /\ problem \in CallProblems
    /\ store = <<NewSubmission("cpp")>>
    /\ history = <<<<"pending">>>>
    /\ tasks = NoTasks
    /\ fs = {}
    /\ unit = UnitIdle
    /\ response = NoResponse
    /\ counters = NoCounters
    /\ posts = NoPosts

CallProcessSubmission(language) ==
    /\ tasks = NoTasks
    /\ tasks' = Append(tasks, NewTask(Len(store), language))
    /\ UNCHANGED <<platform, problem, store, history, fs, unit, response, counters, posts>>

NextCall ==
    \/ \E language \in CallLanguages : CallProcessSubmission(language)
    \/ \E t \in TaskSlots : Step(t, ConcurrentRuns, ConcurrentBuilds)

SpecCall == InitCall /\ [][NextCall]_vars

\* One submission to a problem with hidden test cases, and requests for its
\* details while and after it is graded
RECURSIVE ViewCaseListsOfLen(_)
ViewCaseListsOfLen(n) ==
    IF n = 0 THEN {<<>>}
    ELSE {Append(l, c) : l \in ViewCaseListsOfLen(n - 1),
                         c \in {TestCase(5), HiddenTestCase(5)}}

ViewProblems ==
    {[testCases |-> l, allowedLanguages |-> Languages,
      timeLimit |-> SchemaTimeLimit, memoryLimit |-> SchemaMemoryLimit,
      maxAttempts |-> Unlimited] :
        l \in UNION {ViewCaseListsOfLen(n) : n \in 0..MaxCases}}

InitView ==
    /\ platform \in Platforms
    /\ problem \in ViewProblems
    /\ store = NoStore
    /\ history = NoHistory
    /\ tasks = NoTasks
    /\ fs = {}
    /\ unit = UnitIdle
    /\ response = NoResponse
    /\ counters = NoCounters
    /\ posts = NoPosts

NextView ==
    \/ \E language \in ConcurrentLanguages : SubmitOnce(language)
    \/ \E t \in TaskSlots : Step(t, ConcurrentRuns, ConcurrentBuilds)
    \/ \E sid \in TaskSlots, requester \in Requesters : GetSubmission(sid, requester)

SpecView == InitView /\ [][NextView]_vars

-----------------------------------------------------------------------------
(* Claims *)

\* execute has returned to processSubmission in invocation t
ExecReturned(t) == tasks[t].ret.set /\ tasks[t].pc # "cleanup"

CompletedNormally(beh) == beh.kind = "exit" /\ beh.code = 0

\* the exec of behaviour beh was ended by a kill signal: runTestCase reports
\* 'Time limit exceeded'
ClassifiedTimedOut(beh) ==
    LET ex == ExecRun(prepareExecutionCommand(platform), beh)
    IN  ~ex.resolved /\ ex.signal \in {"SIGTERM", "SIGKILL"}

\* C1: for a test case whose process completes normally, runTestCase reports
\* passed exactly when the normalized program output equals the normalized
\* expected output of the test case.
C1_PassedIffOutputMatchesExpected ==
    (unit.called /\ CompletedNormally(unit.beh)) =>
        (unit.result.passed <=>
            normalizeOutput(unit.beh.out) = normalizeOutput(unit.expected))

\* C2: whenever execute returns a verdict and at least one case was classified
\* as timed out, the status is time-limit-exceeded, whatever the other cases
\* are and wherever they stand in the list.
C2_TimeoutDominates ==
    \A t \in TaskIds :
        (/\ ExecReturned(t)
         /\ tasks[t].ret.success
         /\ \E k \in DOMAIN tasks[t].behs : ClassifiedTimedOut(tasks[t].behs[k]))
            => tasks[t].ret.status = "time-limit-exceeded"

\* C3: a program that never exits on any test case gets 'Time limit exceeded'
\* on every case, overall status time-limit-exceeded and no case passed, on
\* every platform.
C3_SleepingProgramIsTimeLimitExceeded ==
    \A t \in TaskIds :
        (/\ ExecReturned(t)
         /\ tasks[t].ret.success
         /\ tasks[t].behs # <<>>
         /\ \A k \in DOMAIN tasks[t].behs : tasks[t].behs[k] = Hangs)
            => /\ tasks[t].ret.status = "time-limit-exceeded"
               /\ tasks[t].ret.testCasesPassed = 0
               /\ \A k \in DOMAIN tasks[t].results : tasks[t].results[k].error = <<TLE>>

IsLifecyclePrefix(h) ==
    /\ Len(h) <= 4
    /\ Len(h) >= 1 => h[1] = "pending"
    /\ Len(h) >= 2 => h[2] = "compiling"
    /\ Len(h) >= 3 => h[3] = "running"
    /\ Len(h) >= 4 => h[4] \in TerminalStatuses

\* a lifecycle prefix cut short by the direct transition to runtime-error
\* that an internal fault causes
IsFaultedLifecycle(h) ==
    /\ Len(h) >= 2
    /\ h[Len(h)] = "runtime-error"
    /\ IsLifecyclePrefix(SubSeq(h, 1, Len(h) - 1))

InSeq(x, seq) == \E k \in DOMAIN seq : seq[k] = x

\* C4: the statuses persisted for a submission form a prefix of pending,
\* compiling, running, a terminal status (a fault may end the sequence early with
\* runtime-error); running is persisted before any test case process is
\* spawned, and no verdict of execute is persisted without it.
C4_PersistedStatusesFollowLifecycle ==
    /\ \A s \in SubIds : IsLifecyclePrefix(history[s]) \/ IsFaultedLifecycle(history[s])
    /\ \A t \in TaskIds :
          InSeq("run", tasks[t].spawned) => InSeq("running", history[tasks[t].sid])

\* C5: once a terminal status is persisted for a submission, its persisted
\* status never changes.
C5_TerminalStatusIsFinal ==
    [][\A s \in SubIds :
          store[s].status \in TerminalStatuses => store'[s].status = store[s].status]_vars

InFlight(t) == tasks[t].pc # "done"

C8_BuildFailureShortCircuits ==
    \A t \in TaskIds :
        (ExecReturned(t) /\ BuildFailed(tasks[t].build)) =>
            /\ ~tasks[t].ret.success
            /\ tasks[t].ret.status = "compilation-error"
            /\ tasks[t].build.stderr # NoText => tasks[t].ret.error = tasks[t].build.stderr
            /\ tasks[t].build.stderr = NoText => tasks[t].ret.error = CommandFailed
            /\ ~InSeq("run", tasks[t].spawned)
            /\ tasks[t].i = 0
            /\ tasks[t].results = <<>>

C8_Witness ==
    \E t \in TaskIds :
        /\ ExecReturned(t)
        /\ BuildFailed(tasks[t].build)
        /\ tasks[t].build.stderr # NoText
        /\ problem.testCases # <<>>

\* C8 as stated: the error returned after a failed build is always the
\* compiler's diagnostic text.
C8_Original ==
    \A t \in TaskIds :
        (ExecReturned(t) /\ BuildFailed(tasks[t].build)) =>
            /\ tasks[t].ret.status = "compilation-error"
            /\ tasks[t].ret.error = tasks[t].build.stderr
            /\ ~InSeq("run", tasks[t].spawned)

\* C9: a run over an empty test case list is never accepted, and when execute
\* returns a verdict for it the verdict is wrong-answer with score 0, maxScore
\* 0 and totalTestCases 0.
C9_EmptyTestListIsWrongAnswer ==
    \A t \in TaskIds :
        (ExecReturned(t) /\ problem.testCases = <<>>) =>
            /\ tasks[t].ret.status # "accepted"
            /\ tasks[t].ret.success =>
                  /\ tasks[t].ret.status = "wrong-answer"
                  /\ tasks[t].ret.score = 0
                  /\ tasks[t].ret.maxScore = 0
                  /\ tasks[t].ret.totalTestCases = 0

C9_Witness ==
    \E t \in TaskIds :
        /\ ExecReturned(t)
        /\ problem.testCases = <<>>
        /\ tasks[t].ret.success
        /\ tasks[t].ret.status = "wrong-answer"

\* C10: when execute returns a verdict over at least one test case and every
\* case passed, the status is accepted and score = maxScore.
C10_AllPassedIsAccepted ==
    \A t \in TaskIds :
        (/\ ExecReturned(t)
         /\ tasks[t].ret.success
         /\ tasks[t].results # <<>>
         /\ \A k \in DOMAIN tasks[t].results : tasks[t].results[k].passed)
            => /\ tasks[t].ret.status = "accepted"
               /\ tasks[t].ret.score = tasks[t].ret.maxScore

\* execute returned a verdict (success: true) in invocation t
VerdictReturned(t) == ExecReturned(t) /\ tasks[t].ret.success

ErrorStatuses == {"time-limit-exceeded", "memory-limit-exceeded", "runtime-error"}

\* C11: when every test case process completed normally (no timeout, no
\* memory excess, no runtime failure), the verdict follows the score:
\* partial-correct iff 0 < score < maxScore, wrong-answer iff score = 0,
\* accepted iff score = maxScore > 0.
C11_ScoreDecidesWithoutAnomaly ==
    \A t \in TaskIds :
        (VerdictReturned(t)
            /\ \A k \in DOMAIN tasks[t].behs : CompletedNormally(tasks[t].behs[k]))
            => LET ret == tasks[t].ret
               IN  /\ ret.status = "partial-correct" <=> (0 < ret.score /\ ret.score < ret.maxScore)
                   /\ ret.status = "wrong-answer" <=> ret.score = 0
                   /\ ret.status = "accepted" <=> (ret.score = ret.maxScore /\ ret.maxScore > 0)

\* C12: whenever at least one test case process timed out, exceeded memory or
\* failed at runtime, the verdict is one of time-limit-exceeded,
\* memory-limit-exceeded, runtime-error, even if other cases passed.
C12_AnomalyExcludesScoreStatus ==
    \A t \in TaskIds :
        (VerdictReturned(t)
            /\ \E k \in DOMAIN tasks[t].behs : ~CompletedNormally(tasks[t].behs[k]))
            => tasks[t].ret.status \in ErrorStatuses

\* a verdict over one passed case and one case that did not complete normally
C12_Witness ==
    \E t \in TaskIds :
        /\ VerdictReturned(t)
        /\ tasks[t].ret.score > 0
        /\ \E k \in DOMAIN tasks[t].results : tasks[t].results[k].passed
        /\ \E k \in DOMAIN tasks[t].behs : ~CompletedNormally(tasks[t].behs[k])

\* runTestCase reports 'Memory limit exceeded' for the exec of behaviour beh
ClassifiedMemoryExceeded(beh) ==
    LET ex == ExecRun(prepareExecutionCommand(platform), beh)
    IN  ~ex.resolved /\ ex.signal \notin {"SIGTERM", "SIGKILL"} /\ ex.code = 134

\* C13: when no case was classified as timed out and at least one case was
\* classified as exceeding memory, the verdict is memory-limit-exceeded,
\* wherever the runtime-error cases stand in the list.
C13_MemoryPrecedesRuntimeError ==
    \A t \in TaskIds :
        (/\ VerdictReturned(t)
         /\ \A k \in DOMAIN tasks[t].results : ~Includes(tasks[t].results[k].error, TLE)
         /\ \E k \in DOMAIN tasks[t].behs : ClassifiedMemoryExceeded(tasks[t].behs[k]))
            => tasks[t].ret.status = "memory-limit-exceeded"

Permuted(seq, p) == [k \in DOMAIN seq |-> seq[p[k]]]

\* C14: the verdict of execute is the same for every ordering of the test
\* cases with their outcomes: status, score, maxScore and testCasesPassed.
C14_VerdictIsOrderIndependent ==
    \A t \in TaskIds :
        VerdictReturned(t) =>
            \A p \in Permutations(DOMAIN problem.testCases) :
                LET other == LoopVerdict(platform, Permuted(problem.testCases, p),
                                         Permuted(tasks[t].behs, p))
                IN  /\ other.status = tasks[t].ret.status
                    /\ other.score = tasks[t].ret.score
                    /\ other.maxScore = tasks[t].ret.maxScore
                    /\ other.testCasesPassed = tasks[t].ret.testCasesPassed

\* C15: normalizeOutput is idempotent: applied to the output it returned, and
\* to any normalized text, it returns that text unchanged.
C15_NormalizeIsIdempotent ==
    unit.called =>
        /\ normalizeOutput(unit.result.output) = unit.result.output
        /\ normalizeOutput(normalizeOutput(unit.expected)) = normalizeOutput(unit.expected)

\* a program output of several lines that normalization changed
C15_Witness ==
    /\ unit.called
    /\ unit.result.output # unit.beh.out
    /\ InSeq("\n", unit.result.output)

\* the transform of the specification: split into lines, remove the trailing
\* whitespace of each line, drop the lines left empty, rejoin with newline
ReferenceNormalize(s) ==
    LET lines == Split(s, "\n")
    IN  Join(NonEmptyLines([k \in DOMAIN lines |-> TrimEnd(lines[k])]), "\n")

\* C16: the output normalizeOutput returns is that of the reference transform,
\* which keeps the leading whitespace of a line.
C16_NormalizeIsReferenceTransform ==
    unit.called => unit.result.output = ReferenceNormalize(unit.beh.out)

IsBlankLine(l) == \A k \in DOMAIN l : l[k] \in Whitespace

\* the text without its fully blank lines (trailing newlines make such lines)
WithoutBlankLines(s) == Join(SelectSeq(Split(s, "\n"), LAMBDA l : ~IsBlankLine(l)), "\n")

DifferOnlyByBlankLines(a, e) == WithoutBlankLines(a) = WithoutBlankLines(e)

\* a is e with one space inserted between two non-space characters of a line
HasExtraInnerSpace(a, e) ==
    \E k \in 1..(Len(e) - 1) :
        /\ e[k] \notin Whitespace
        /\ e[k + 1] \notin Whitespace
        /\ a = SubSeq(e, 1, k) \o <<" ">> \o SubSeq(e, k + 1, Len(e))

\* C17: outputs that differ only by trailing newlines or fully blank lines
\* normalize to the same text; an output with one extra space between two
\* non-space characters of a line normalizes to a different text.
C17_BlankLinesIgnoredInnerSpaceKept ==
    unit.called =>
        /\ DifferOnlyByBlankLines(unit.beh.out, unit.expected)
              => unit.result.output = normalizeOutput(unit.expected)
        /\ HasExtraInnerSpace(unit.beh.out, unit.expected)
              => unit.result.output # normalizeOutput(unit.expected)

\* an output with a blank line inside that the expected output does not have
C17_Witness ==
    /\ unit.called
    /\ DifferOnlyByBlankLines(unit.beh.out, unit.expected)
    /\ unit.beh.out # unit.expected
    /\ InSeq("\n", unit.result.output)
    /\ Len(unit.beh.out) > Len(unit.result.output)

RECURSIVE SumDeclaredPoints(_)
SumDeclaredPoints(testCases) ==
    IF testCases = <<>> THEN 0
    ELSE Head(testCases).points + SumDeclaredPoints(Tail(testCases))

\* C18: in a verdict, the score of each case is its declared point value if
\* it passed and 0 otherwise, score is the sum of the case scores and maxScore
\* the sum of the declared point values; a case declared with 0 points adds 0
\* to both.
C18_ScoresAreDeclaredPoints ==
    \A t \in TaskIds :
        VerdictReturned(t) =>
            /\ \A k \in DOMAIN tasks[t].results :
                  tasks[t].results[k].score =
                      IF tasks[t].results[k].passed THEN problem.testCases[k].points ELSE 0
            /\ tasks[t].ret.score = SumScores(tasks[t].results)
            /\ tasks[t].ret.maxScore = SumDeclaredPoints(problem.testCases)

\* the result entry carries the input or the expected output of the test case
Echoes(entry, testCase) ==
    entry.input = testCase.input \/ entry.expectedOutput = testCase.output

\* C19: the details GET /api/submissions/:id returns to the submitting user
\* carry neither the input nor the expected output of a hidden test case.
C19_HiddenCasesNotEchoed ==
    (response.code = 200 /\ response.requester = "submitter") =>
        \A k \in DOMAIN response.data.result.testCaseResults :
            problem.testCases[k].isHidden =>
                ~Echoes(response.data.result.testCaseResults[k], problem.testCases[k])

\* C20: every submission that POST has stored eventually has a terminal
\* status persisted, also when reads or writes of the submission store fail
\* during processSubmission.
C20_EventuallyTerminal ==
    \A s \in TaskSlots :
        (s \in SubIds) ~> (s \in SubIds /\ store[s].status \in TerminalStatuses)

\* an internal fault occurred in invocation t: execute caught an exception,
\* or processSubmission threw before execute was called
Faulted(t) ==
    \/ tasks[t].ret.set /\ ~tasks[t].ret.success /\ tasks[t].ret.status = "runtime-error"
    \/ ~tasks[t].ret.set /\ tasks[t].error # NoText

\* C21: when processSubmission has ended after an internal fault, the
\* persisted status is runtime-error with the message of a fault stored in
\* compilationInfo, and pending was never persisted again.
C21_FaultBecomesRuntimeError ==
    \A t \in TaskIds :
        (tasks[t].pc = "done" /\ Faulted(t)) =>
            LET sid == tasks[t].sid
            IN  /\ store[sid].status = "runtime-error"
                /\ store[sid].compilationInfo.error \in
                       {tasks[t].ret.error, tasks[t].error} \ {NoText}
                /\ \A k \in DOMAIN history[sid] : history[sid][k] = "pending" => k = 1

\* C24: in every verdict execute returns there is exactly one result entry
\* per test case, in the order of the list, and totalTestCases is the length
\* of the list, whatever failed on single cases.
C24_OneResultPerTestCase ==
    \A t \in TaskIds :
        VerdictReturned(t) =>
            LET entries == tasks[t].ret.testCaseResults
            IN  /\ Len(entries) = Len(problem.testCases)
                /\ tasks[t].ret.totalTestCases = Len(problem.testCases)
                /\ \A k \in DOMAIN entries :
                      /\ entries[k].input = problem.testCases[k].input
                      /\ entries[k].expectedOutput = problem.testCases[k].output
                      /\ entries[k].passed => entries[k].score = PointsOf(problem.testCases[k])
                      /\ entries[k] = ResultEntry(problem.testCases[k],
                              runTestCase(platform, problem.testCases[k].input, tasks[t].behs[k]))

\* a verdict over two cases of different points, the first failed by a crash
C24_Witness ==
    \E t \in TaskIds :
        /\ VerdictReturned(t)
        /\ Len(problem.testCases) = 2
        /\ problem.testCases[1].points # problem.testCases[2].points
        /\ ~CompletedNormally(tasks[t].behs[1])
        /\ tasks[t].ret.testCaseResults[2].passed

C26_CompilationErrorIffBuildFailed ==
    \A t \in TaskIds :
        (ExecReturned(t) /\ tasks[t].build.kind # "none") =>
            (tasks[t].ret.status = "compilation-error" <=> BuildFailed(tasks[t].build))

C22_UnsupportedLanguageFails ==
    \A t \in TaskIds :
        tasks[t].language \notin Languages =>
            /\ SourceFile(t) \notin fs
            /\ ExecutableFile(t) \notin fs
            /\ tasks[t].spawned = <<>>
            /\ tasks[t].pc \notin {"compile", "run"}
            /\ ExecReturned(t) =>
                  /\ ~tasks[t].ret.success
                  /\ tasks[t].ret.error \in {UnsupportedLanguage, FsError}
                  /\ tasks[t].execTimeLimit # 0 => tasks[t].ret.error = UnsupportedLanguage

\* execute returned the unsupported-language error
C22_Witness ==
    \E t \in TaskIds :
        /\ ExecReturned(t)
        /\ tasks[t].language \notin Languages
        /\ tasks[t].ret.error = UnsupportedLanguage
        /\ problem.testCases # <<>>

AllProcessed == tasks # NoTasks /\ \A t \in TaskIds : tasks[t].pc = "done"

StatusCount(status) == Cardinality({s \in SubIds : store[s].status = status})

\* C28: once every concurrently processed submission of the user has finished,
\* statistics.totalSubmissions is the number of processed submissions and
\* statistics.problemsSolved the number of distinct problems with an accepted
\* submission (here one problem: 1 if any submission is accepted, else 0)
C28_UserStatisticsAreExact ==
    AllProcessed =>
        /\ counters.user.totalSubmissions = Len(tasks)
        /\ counters.user.problemsSolved = IF StatusCount("accepted") > 0 THEN 1 ELSE 0

\* C29: once every concurrently processed submission to the problem has
\* finished with a verdict, submissions.total is their number, successful the
\* number accepted and partial the number partial-correct
C29_ProblemCountersAreExact ==
    AllProcessed =>
        /\ counters.problem.total = Len(tasks)
        /\ counters.problem.successful = StatusCount("accepted")
        /\ counters.problem.partial = StatusCount("partial-correct")

\* C30: for a problem with maxAttempts > 0, concurrent POSTs never leave more
\* than maxAttempts submission records, and no two records carry the same
\* attemptNumber
C30_AttemptLimitHolds ==
    problem.maxAttempts > 0 =>
        /\ Len(store) <= problem.maxAttempts
        /\ \A a, b \in SubIds : a # b => store[a].attemptNumber # store[b].attemptNumber

====
